---- MODULE Spec2Model ----
(***************************************************************************)
(* METARMap (metar.py): one run of the script, from the NeoPixel object's  *)
(* construction to the end of the animation loop.                          *)
(*                                                                         *)
(* Representation:                                                         *)
(*   - a colour tuple of config.json is the name of its configuration key  *)
(*     (the eleven colours are kept distinct);                             *)
(*   - a METAR text (rawOb) is a sequence of one-character strings;        *)
(*   - times (BLINK_SPEED, BLINK_TOTALTIME_SECONDS, DISPLAY_ROTATION_SPEED,*)
(*     displayTime) are whole numbers of one common unit;                  *)
(*   - latitudes are whole degrees, and every reported longitude is Lon    *)
(*     (stations on one meridian), 0 standing for a missing coordinate;    *)
(*   - Python's None is the string "None"; the displayairports list, which *)
(*     may be None, is a record [isNone, lines].                           *)
(***************************************************************************)
EXTENDS Integers, Sequences, FiniteSets, TLC

\* ------------------------------------------------------------------ bounds
MaxTokens == 2
MaxAirports == 2
MaxRecords == 3
MaxWind == 2
MaxTime == 4

\* ------------------------------------------------------- texts and regexes
TS == <<"T", "S">>
LTG == <<"L", "T", "G">>
VCTS == <<"V", "C", "T", "S">>
TSNO == <<"T", "S", "N", "O">>

\* the optional group after TS in the lightning pattern
TSSuffixes ==
  { <<>>, <<"R","A">>, <<"S","N">>, <<"P","L">>, <<"G","R">>, <<"S","G">>,
    <<"G","S">>, <<"S","H">>, <<"U","P">>, <<"S","P">>, <<"S","N","R","A">> }

\* the optional group after LTG
LTGTypes == { <<>>, <<"I","C">>, <<"C","C">>, <<"C","G">>, <<"C","A">> }

\* the qualifiers of the last alternative
LTGQualifiers ==
  { <<"F","R","Q">>, <<"O","C","N","L">>, <<"C","O","N","S">>, <<"D","S","N","T">> }

Whitespace == { " " }
NonWordChars == { " ", "-", "+", "/" }

\* \w of Python's re, on the model's alphabet
IsWordChar(c) == c \notin NonWordChars

\* str.upper(), on the model's alphabet
UpperChar(c) ==
  CASE c = "t" -> "T"
    [] c = "s" -> "S"
    [] c = "n" -> "N"
    [] c = "o" -> "O"
    [] c = "l" -> "L"
    [] c = "g" -> "G"
    [] OTHER -> c

upper(text) == [k \in 1..Len(text) |-> UpperChar(text[k])]

\* \b at position i: between text[i-1] and text[i]
WordBoundary(text, i) ==
  LET before == i > 1 /\ IsWordChar(text[i - 1])
      after == i <= Len(text) /\ IsWordChar(text[i])
  IN before # after

\* (?:FRQ|OCNL|CONS|DSNT)\s+LTG
QualifiedLTG(s) ==
  \E q \in LTGQualifiers :
    /\ Len(s) >= Len(q) + 1 + Len(LTG)
    /\ SubSeq(s, 1, Len(q)) = q
    /\ SubSeq(s, Len(s) - Len(LTG) + 1, Len(s)) = LTG
    /\ \A k \in (Len(q) + 1)..(Len(s) - Len(LTG)) : s[k] \in Whitespace

\* the group between the two \b of the lightning pattern
PatternGroup(s) ==
  \/ s = VCTS
  \/ \E p \in { <<>>, <<"-">>, <<"+">> } : \E x \in TSSuffixes : s = p \o TS \o x
  \/ \E t \in LTGTypes : s = LTG \o t
  \/ QualifiedLTG(s)

\* re.search(pattern, text)
pattern(text) ==
  \E i \in 1..(Len(text) + 1) : \E j \in i..(Len(text) + 1) :
    /\ WordBoundary(text, i)
    /\ WordBoundary(text, j)
    /\ PatternGroup(SubSeq(text, i, j - 1))

\* re.search(r"\bTSNO\b", text)
SearchTSNO(text) ==
  \E i \in 1..(Len(text) + 1) :
    /\ i + Len(TSNO) - 1 <= Len(text)
    /\ WordBoundary(text, i)
    /\ WordBoundary(text, i + Len(TSNO))
    /\ SubSeq(text, i, i + Len(TSNO) - 1) = TSNO

\* the lightning flag of a record, from its raw text
LightningNoExclusion(rawOb) == pattern(upper(rawOb))

Lightning(rawOb) == ~SearchTSNO(upper(rawOb)) /\ pattern(upper(rawOb))


\* ------------------------------------------------------------ configuration
VARIABLES config, airports, displayairports, response, noDisplayLibraries

LED_COUNT == config.LED_COUNT
ACTIVATE_WINDCONDITION_ANIMATION == config.ACTIVATE_WINDCONDITION_ANIMATION
ACTIVATE_LIGHTNING_ANIMATION == config.ACTIVATE_LIGHTNING_ANIMATION
FADE_INSTEAD_OF_BLINK == config.FADE_INSTEAD_OF_BLINK
WIND_BLINK_THRESHOLD == config.WIND_BLINK_THRESHOLD
HIGH_WINDS_THRESHOLD == config.HIGH_WINDS_THRESHOLD
ALWAYS_BLINK_FOR_GUSTS == config.ALWAYS_BLINK_FOR_GUSTS
BLINK_SPEED == config.BLINK_SPEED
BLINK_TOTALTIME_SECONDS == config.BLINK_TOTALTIME_SECONDS
ACTIVATE_EXTERNAL_METAR_DISPLAY == config.ACTIVATE_EXTERNAL_METAR_DISPLAY
DISPLAY_ROTATION_SPEED == config.DISPLAY_ROTATION_SPEED
SHOW_LEGEND == config.SHOW_LEGEND
OFFSET_LEGEND_BY == config.OFFSET_LEGEND_BY
REPLACE_CAT_WITH_CLOSEST == config.REPLACE_CAT_WITH_CLOSEST

COLOR_VFR == "COLOR_VFR"
COLOR_VFR_FADE == "COLOR_VFR_FADE"
COLOR_MVFR == "COLOR_MVFR"
COLOR_MVFR_FADE == "COLOR_MVFR_FADE"
COLOR_IFR == "COLOR_IFR"
COLOR_IFR_FADE == "COLOR_IFR_FADE"
COLOR_LIFR == "COLOR_LIFR"
COLOR_LIFR_FADE == "COLOR_LIFR_FADE"
COLOR_CLEAR == "COLOR_CLEAR"
COLOR_LIGHTNING == "COLOR_LIGHTNING"
COLOR_HIGH_WINDS == "COLOR_HIGH_WINDS"

\* the colour of a pixel of a new NeoPixel buffer
Unlit == "(0, 0, 0)"

\* ------------------------------------------------------------ program state
VARIABLES pc, error, pixels, writes, showCount, httpRequests, output, parsed,
          station_count, conditionDict, station_list, station_meta, disp,
          looplimit, windCycle, displayTime, displayAirportCounter, numAirports

inputs == <<config, airports, displayairports, response, noDisplayLibraries>>

vars == <<config, airports, displayairports, response, noDisplayLibraries,
          pc, error, pixels, writes, showCount, httpRequests, output, parsed,
          station_count, conditionDict, station_list, station_meta, disp,
          looplimit, windCycle, displayTime, displayAirportCounter, numAirports>>

\* ------------------------------------------------------------- normalisers
\* a JSON number n is <<n>>, a JSON null or a missing key is <<>>
safe_int(value, default) == IF Len(value) = 1 THEN value[1] ELSE default

safe_str(value, default) == IF value \in { "None" } THEN default ELSE value

\* Python's round() of p/q (p >= 0, q > 0): halves go to the even neighbour
round(p, q) ==
  LET down == p \div q
      twice == 2 * (p % q)
  IN IF twice < q THEN down
     ELSE IF twice > q THEN down + 1
     ELSE IF down % 2 = 0 THEN down ELSE down + 1

\* ------------------------------------------------- the classifier (parse)
EarthRadius == 6371

Abs(n) == IF n < 0 THEN -n ELSE n

\* great-circle distance in whole km. On one meridian (dlon = 0) the formula
\* reduces to R * |dlat| in radians; pi is taken as 355/113.
haversine(lat1, lon1, lat2, lon2) ==
  CASE lon1 = lon2 -> (EarthRadius * 355 * Abs(lat2 - lat1)) \div (113 * 180)

\* wgst of one record
GustFlag(wgst_speed) ==
  IF ALWAYS_BLINK_FOR_GUSTS \/ wgst_speed > WIND_BLINK_THRESHOLD THEN TRUE ELSE FALSE

\* the Condition built from one raw record (the fields the LEDs depend on)
Condition(location) ==
  [ flightCategory |-> safe_str(location.fltCat, ""),
    windSpeed      |-> safe_int(location.wspd, 0),
    windGust       |-> GustFlag(safe_int(location.wgst, 0)),
    windGustSpeed  |-> safe_int(location.wgst, 0),
    lightning      |-> Lightning(location.rawOb) ]

\* the StationMeta entry of one raw record
Meta(location) ==
  [ icaoId |-> safe_str(location.icaoId, ""),
    lat    |-> location.lat,
    lon    |-> location.lon,
    fltCat |-> safe_str(location.fltCat, "") ]

\* d[key] = value of a Python dict
DictSet(d, key, value) ==
  [k \in (DOMAIN d) \cup {key} |-> IF k = key THEN value ELSE d[k]]

InList(x, list) == \E k \in 1..Len(list) : list[k] = x

\* "displayairports is None or icaoId in displayairports"
Rotated(icaoId) == displayairports.isNone \/ InList(icaoId, displayairports.lines)

\* --------------------------------------------------- the fallback resolver
IsValidStation(s) == s.fltCat # "" /\ s.lat # 0 /\ s.lon # 0

valid_stations == SelectSeq(station_meta, IsValidStation)

Infinity == -1

CloserOrEqual(dist, nearest_dist) == nearest_dist = Infinity \/ dist <= nearest_dist

\* "dist < nearest_dist"
Closer(dist, nearest_dist) == nearest_dist = Infinity \/ dist < nearest_dist

\* the inner loop: the index in valid_stations of the nearest reference of s
\* (0 is None), scanning from position k
RECURSIVE NearestFrom(_, _, _, _)
NearestFrom(s, k, nearest, nearest_dist) ==
  IF k > Len(valid_stations) THEN nearest
  ELSE LET ref == valid_stations[k]
           dist == haversine(s.lat, s.lon, ref.lat, ref.lon)
       IN IF Closer(dist, nearest_dist)
          THEN NearestFrom(s, k + 1, k, dist)
          ELSE NearestFrom(s, k + 1, nearest, nearest_dist)

NeedsFill(s) ==
  s.fltCat = "" /\ s.lat # 0 /\ s.lon # 0 /\ valid_stations # <<>>
  /\ REPLACE_CAT_WITH_CLOSEST

\* the outer loop over station_meta from position k, on the dictionary dict
RECURSIVE FillFrom(_, _)
FillFrom(dict, k) ==
  IF k > Len(station_meta) THEN dict
  ELSE LET s == station_meta[k]
           nearest == NearestFrom(s, 1, 0, Infinity)
       IN IF NeedsFill(s) /\ nearest # 0
          THEN FillFrom([dict EXCEPT ![s.icaoId].flightCategory =
                                        valid_stations[nearest].fltCat], k + 1)
          ELSE FillFrom(dict, k + 1)

\* ------------------------------------------------ the animation scheduler
windy(conditions, wc) ==
  IF ACTIVATE_WINDCONDITION_ANIMATION /\ wc = TRUE
     /\ (conditions.windSpeed >= WIND_BLINK_THRESHOLD \/ conditions.windGust = TRUE)
  THEN TRUE ELSE FALSE

highWinds(conditions, wc) ==
  IF windy(conditions, wc) /\ HIGH_WINDS_THRESHOLD # -1
     /\ (conditions.windSpeed >= HIGH_WINDS_THRESHOLD
         \/ conditions.windGustSpeed >= HIGH_WINDS_THRESHOLD)
  THEN TRUE ELSE FALSE

lightningAnyPhase(conditions, wc) ==
  IF ACTIVATE_LIGHTNING_ANIMATION /\ conditions.lightning = TRUE
  THEN TRUE ELSE FALSE

lightningConditions(conditions, wc) ==
  IF ACTIVATE_LIGHTNING_ANIMATION /\ wc = FALSE /\ conditions.lightning = TRUE
  THEN TRUE ELSE FALSE

CategoryColorNoBlink(base, fade, w, h, l) ==
  IF ~(w \/ l) THEN base
  ELSE IF l THEN COLOR_LIGHTNING
  ELSE IF h THEN COLOR_HIGH_WINDS
  ELSE base

\* the conditional expression of one category's branch
CategoryColor(base, fade, w, h, l) ==
  IF ~(w \/ l) THEN base
  ELSE IF l THEN COLOR_LIGHTNING
  ELSE IF h THEN COLOR_HIGH_WINDS
  ELSE IF w THEN (IF FADE_INSTEAD_OF_BLINK THEN fade ELSE COLOR_CLEAR)
  ELSE COLOR_CLEAR

OtherCategoryColorAnimated(w, h, l) ==
  CategoryColor(COLOR_CLEAR, COLOR_CLEAR, w, h, l)

\* the final else branch: a category that is none of the four
OtherCategoryColor(w, h, l) == COLOR_CLEAR

\* the colour of an airport with a Condition
ConditionColor(conditions, wc) ==
  LET w == windy(conditions, wc)
      h == highWinds(conditions, wc)
      l == lightningConditions(conditions, wc)
  IN IF conditions.flightCategory = "VFR"
     THEN CategoryColor(COLOR_VFR, COLOR_VFR_FADE, w, h, l)
     ELSE IF conditions.flightCategory = "MVFR"
     THEN CategoryColor(COLOR_MVFR, COLOR_MVFR_FADE, w, h, l)
     ELSE IF conditions.flightCategory = "IFR"
     THEN CategoryColor(COLOR_IFR, COLOR_IFR_FADE, w, h, l)
     ELSE IF conditions.flightCategory = "LIFR"
     THEN CategoryColor(COLOR_LIFR, COLOR_LIFR_FADE, w, h, l)
     ELSE OtherCategoryColor(w, h, l)

\* one "pixels[i] = color" of the airport loop, as it is logged
AirportWrite(i, airportcode, wc) ==
  LET known == airportcode \in DOMAIN conditionDict
      conditions == conditionDict[airportcode]
  IN [ led |-> i,
       color |-> IF known THEN ConditionColor(conditions, wc) ELSE COLOR_CLEAR,
       airport |-> airportcode,
       legend |-> FALSE,
       windy |-> known /\ windy(conditions, wc),
       highWinds |-> known /\ highWinds(conditions, wc),
       lightningConditions |-> known /\ lightningConditions(conditions, wc) ]

AfterNullSame(i) == i

\* the index after a skipped NULL entry
AfterNull(i) == i + 1

\* the loop over airports from position k with LED index i: the writes it
\* makes and the index it ends with
RECURSIVE AirportLoop(_, _, _)
AirportLoop(k, i, wc) ==
  IF k > Len(airports) THEN [i |-> i, writes |-> <<>>]
  ELSE IF airports[k] = "NULL" THEN AirportLoop(k + 1, AfterNull(i), wc)
  ELSE LET rest == AirportLoop(k + 1, i + 1, wc)
       IN [i |-> rest.i,
           writes |-> <<AirportWrite(i, airports[k], wc)>> \o rest.writes]

LegendWrite(i, c) ==
  [ led |-> i, color |-> c, airport |-> "", legend |-> TRUE,
    windy |-> FALSE, highWinds |-> FALSE, lightningConditions |-> FALSE ]

\* the legend's writes in program order, i being the index after the airports
Legend(i, wc) ==
  IF ~SHOW_LEGEND THEN <<>>
  ELSE
    << LegendWrite(i + OFFSET_LEGEND_BY, COLOR_VFR),
       LegendWrite(i + OFFSET_LEGEND_BY + 1, COLOR_MVFR),
       LegendWrite(i + OFFSET_LEGEND_BY + 2, COLOR_IFR),
       LegendWrite(i + OFFSET_LEGEND_BY + 3, COLOR_LIFR) >>
    \o (IF ACTIVATE_LIGHTNING_ANIMATION = TRUE
        THEN << LegendWrite(i + OFFSET_LEGEND_BY + 4,
                            IF wc THEN COLOR_LIGHTNING ELSE COLOR_VFR) >>
        ELSE <<>>)
    \o (IF ACTIVATE_WINDCONDITION_ANIMATION = TRUE
        THEN << LegendWrite(i + OFFSET_LEGEND_BY + 5,
                            IF ~wc THEN COLOR_VFR
                            ELSE IF FADE_INSTEAD_OF_BLINK THEN COLOR_VFR_FADE
                            ELSE COLOR_CLEAR) >>
             \o (IF HIGH_WINDS_THRESHOLD # -1
                 THEN << LegendWrite(i + OFFSET_LEGEND_BY + 6,
                                     IF ~wc THEN COLOR_VFR ELSE COLOR_HIGH_WINDS) >>
                 ELSE <<>>)
        ELSE <<>>)

\* pixels[i] raises IndexError outside the strip (offsets are not negative here)
InStrip(i) == i >= 0 /\ i < LED_COUNT

\* the writes made before the first one that raises
RECURSIVE Executed(_)
Executed(ws) ==
  IF ws = <<>> \/ ~InStrip(Head(ws).led) THEN <<>>
  ELSE <<Head(ws)>> \o Executed(Tail(ws))

\* the buffer after the writes ws
RECURSIVE Apply(_, _)
Apply(buf, ws) ==
  IF ws = <<>> THEN buf
  ELSE Apply([buf EXCEPT ![Head(ws).led + 1] = Head(ws).color], Tail(ws))

\* looplimit before the loop
TickCount ==
  IF ACTIVATE_WINDCONDITION_ANIMATION \/ ACTIVATE_LIGHTNING_ANIMATION
     \/ ACTIVATE_EXTERNAL_METAR_DISPLAY
  THEN round(BLINK_TOTALTIME_SECONDS, BLINK_SPEED)
  ELSE 1

\* "displayairports if displayairports else station_list"
display_list ==
  IF ~displayairports.isNone /\ displayairports.lines # <<>>
  THEN displayairports.lines ELSE station_list

\* the rotation of displayAirportCounter
NextCounter(counter) == IF counter < numAirports - 1 THEN counter + 1 ELSE 0

\* ----------------------------------------------------------------- actions
\* pixels = neopixel.NeoPixel(LED_PIN, LED_COUNT, ...)
InitStrip ==
  /\ pc = "init"
  /\ pixels' = [k \in 1..LED_COUNT |-> Unlit]
  /\ pc' = "read"
  /\ UNCHANGED <<inputs, error, writes, showCount, httpRequests, output, parsed,
                 station_count, conditionDict, station_list, station_meta, disp,
                 looplimit, windCycle, displayTime, displayAirportCounter,
                 numAirports>>

\* the airports files are read; "if len(airports) > LED_COUNT: ... quit()"
CheckAirportCount ==
  /\ pc = "read"
  /\ pc' = IF Len(airports) > LED_COUNT THEN "exited" ELSE "fetch"
  /\ UNCHANGED <<inputs, error, pixels, writes, showCount, httpRequests, output,
                 parsed, station_count, conditionDict, station_list, station_meta,
                 disp, looplimit, windCycle, displayTime, displayAirportCounter,
                 numAirports>>

\* req = requests.get(url); output = json.loads(req.text)
FetchMetar ==
  /\ pc = "fetch"
  /\ httpRequests' = httpRequests + 1
  /\ output' = response
  /\ parsed' = 0
  /\ station_count' = 0
  /\ conditionDict' = <<>>
  /\ station_list' = <<>>
  /\ station_meta' = <<>>
  /\ pc' = "parse"
  /\ UNCHANGED <<inputs, error, pixels, writes, showCount, disp, looplimit,
                 windCycle, displayTime, displayAirportCounter, numAirports>>

\* one iteration of "for location in output"
ParseLocation ==
  /\ pc = "parse"
  /\ parsed < Len(output)
  /\ LET location == output[parsed + 1]
         icaoId == safe_str(location.icaoId, "")
     IN /\ IF icaoId # ""
           THEN /\ station_count' = station_count + 1
                /\ conditionDict' = DictSet(conditionDict, icaoId, Condition(location))
                /\ station_meta' = Append(station_meta, Meta(location))
           ELSE UNCHANGED <<station_count, conditionDict, station_meta>>
        /\ station_list' = IF Rotated(icaoId) THEN Append(station_list, icaoId)
                           ELSE station_list
  /\ parsed' = parsed + 1
  /\ UNCHANGED <<inputs, pc, error, pixels, writes, showCount, httpRequests,
                 output, disp, looplimit, windCycle, displayTime,
                 displayAirportCounter, numAirports>>

\* "fill missing fltCat by nearest valid station"
FillMissing ==
  /\ pc = "parse"
  /\ parsed = Len(output)
  /\ conditionDict' = FillFrom(conditionDict, 1)
  /\ pc' = "display"
  /\ UNCHANGED <<inputs, error, pixels, writes, showCount, httpRequests, output,
                 parsed, station_count, station_list, station_meta, disp,
                 looplimit, windCycle, displayTime, displayAirportCounter,
                 numAirports>>

\* the display is started and the loop's variables are set
StartDisplay ==
  /\ pc = "display"
  /\ disp' = IF ACTIVATE_EXTERNAL_METAR_DISPLAY /\ ~noDisplayLibraries
             THEN "SSD1306" ELSE "None"
  /\ looplimit' = TickCount
  /\ windCycle' = FALSE
  /\ displayTime' = 0
  /\ displayAirportCounter' = 0
  /\ numAirports' = Len(display_list)
  /\ pc' = "loop"
  /\ UNCHANGED <<inputs, error, pixels, writes, showCount, httpRequests, output,
                 parsed, station_count, conditionDict, station_list, station_meta>>

\* one iteration of "while looplimit > 0"
Tick ==
  /\ pc = "loop"
  /\ looplimit > 0
  /\ LET loop == AirportLoop(1, 0, windCycle)
         planned == loop.writes \o Legend(loop.i, windCycle)
         done == Executed(planned)
         pixelError == Len(done) < Len(planned)
         shown == disp # "None"
         rotate == shown /\ ~(displayTime <= DISPLAY_ROTATION_SPEED)
         counter == IF rotate THEN NextCounter(displayAirportCounter)
                    ELSE displayAirportCounter
         indexError == shown /\ counter >= Len(station_list)
         typeError == /\ shown /\ ~rotate /\ ~indexError
                      /\ station_list[counter + 1] \notin DOMAIN conditionDict
     IN /\ pixels' = Apply(pixels, done)
        /\ writes' = done
        /\ IF pixelError
           THEN /\ pc' = "crashed"
                /\ error' = "IndexError"
                /\ UNCHANGED <<showCount, displayTime, displayAirportCounter,
                               windCycle, looplimit>>
           ELSE /\ showCount' = showCount + 1
                /\ displayAirportCounter' = counter
                /\ IF indexError \/ typeError
                   THEN /\ pc' = "crashed"
                        /\ error' = IF indexError THEN "IndexError" ELSE "TypeError"
                        /\ displayTime' = IF rotate THEN 0 ELSE displayTime
                        /\ UNCHANGED <<windCycle, looplimit>>
                   ELSE /\ displayTime' = IF ~shown THEN displayTime
                                          ELSE IF rotate THEN 0
                                          ELSE displayTime + BLINK_SPEED
                        /\ windCycle' = (IF windCycle THEN FALSE ELSE TRUE)
                        /\ looplimit' = looplimit - 1
                        /\ UNCHANGED <<pc, error>>
  /\ UNCHANGED <<inputs, httpRequests, output, parsed, station_count,
                 conditionDict, station_list, station_meta, disp, numAirports>>

\* the loop's condition fails: print("Done")
Finish ==
  /\ pc = "loop"
  /\ looplimit <= 0
  /\ pc' = "done"
  /\ UNCHANGED <<inputs, error, pixels, writes, showCount, httpRequests, output,
                 parsed, station_count, conditionDict, station_list, station_meta,
                 disp, looplimit, windCycle, displayTime, displayAirportCounter,
                 numAirports>>

Next ==
  \/ InitStrip
  \/ CheckAirportCount
  \/ FetchMetar
  \/ ParseLocation
  \/ FillMissing
  \/ StartDisplay
  \/ Tick
  \/ Finish

\* ------------------------------------------------------------------ inputs
Null == <<>>
Num(n) == <<n>>

SeqsUpTo(S, n) == UNION { [1..k -> S] : k \in 0..n }

\* tokens joined by single spaces
RECURSIVE Join(_)
Join(tokens) ==
  IF tokens = <<>> THEN <<>>
  ELSE IF Len(tokens) = 1 THEN Head(tokens)
  ELSE Head(tokens) \o <<" ">> \o Join(Tail(tokens))

Vocabulary ==
  { TSNO, TS, VCTS, <<"+","T","S","R","A">>, <<"L","T","G","C","G">>,
    <<"L","T","G","I","C","C","C">>, <<"D","S","N","T">>, <<"K","T","S","T">>,
    <<"t","s">>, <<"R","A">>, <<"R","A","/","T","S">> }

TokenLists == SeqsUpTo(Vocabulary, MaxTokens)

Longitudes == { 10 }

Station(id, cat, lat, lon, wspd, wgst, raw) ==
  [ icaoId |-> id, fltCat |-> cat, lat |-> lat, lon |-> lon,
    wspd |-> wspd, wgst |-> wgst, rawOb |-> raw ]

DefaultConfig ==
  [ LED_COUNT |-> 12,
    ACTIVATE_WINDCONDITION_ANIMATION |-> TRUE,
    ACTIVATE_LIGHTNING_ANIMATION |-> TRUE,
    FADE_INSTEAD_OF_BLINK |-> TRUE,
    WIND_BLINK_THRESHOLD |-> 2,
    HIGH_WINDS_THRESHOLD |-> 3,
    ALWAYS_BLINK_FOR_GUSTS |-> FALSE,
    BLINK_SPEED |-> 1,
    BLINK_TOTALTIME_SECONDS |-> 2,
    ACTIVATE_EXTERNAL_METAR_DISPLAY |-> FALSE,
    DISPLAY_ROTATION_SPEED |-> 1,
    SHOW_LEGEND |-> FALSE,
    OFFSET_LEGEND_BY |-> 0,
    REPLACE_CAT_WITH_CLOSEST |-> TRUE ]

DefaultResponse ==
  << Station("KAAA", "VFR", 1, 10, Num(2), Null, <<>>),
     Station("KBBB", "IFR", 2, 10, Num(0), Num(3), Join(<<VCTS>>)) >>

NoSubset == [isNone |-> TRUE, lines |-> <<>>]
Subset(lines) == [isNone |-> FALSE, lines |-> lines]

InitProgram ==
  /\ pc = "init"
  /\ error = "None"
  /\ pixels = <<>>
  /\ writes = <<>>
  /\ showCount = 0
  /\ httpRequests = 0
  /\ output = <<>>
  /\ parsed = 0
  /\ station_count = 0
  /\ conditionDict = <<>>
  /\ station_list = <<>>
  /\ station_meta = <<>>
  /\ disp = "None"
  /\ looplimit = 0
  /\ windCycle = FALSE
  /\ displayTime = 0
  /\ displayAirportCounter = 0
  /\ numAirports = 0

\* one station in every category, wind, gust and lightning state, under every
\* animation setting
InitColours ==
  \E cat \in { "", "None", "VFR", "MVFR", "IFR", "LIFR", "UNKN" } :
  \E ws \in 0..MaxWind : \E wg \in 0..MaxWind : \E raw \in { <<>>, TS } :
  \E wind \in BOOLEAN : \E ltg \in BOOLEAN : \E fade \in BOOLEAN :
  \E always \in BOOLEAN : \E wbt \in {1, 2} : \E hwt \in {-1, 2} :
    /\ config = [DefaultConfig EXCEPT
                   !.ACTIVATE_WINDCONDITION_ANIMATION = wind,
                   !.ACTIVATE_LIGHTNING_ANIMATION = ltg,
                   !.FADE_INSTEAD_OF_BLINK = fade,
                   !.ALWAYS_BLINK_FOR_GUSTS = always,
                   !.WIND_BLINK_THRESHOLD = wbt,
                   !.HIGH_WINDS_THRESHOLD = hwt,
                   !.BLINK_TOTALTIME_SECONDS = 3]
    /\ airports = <<"KAAA", "KBBB">>
    /\ displayairports = NoSubset
    /\ response = << Station("KAAA", cat, 1, 10, Num(ws), Num(wg), raw) >>
    /\ noDisplayLibraries = FALSE

\* every airport list against every strip length, with and without the legend
InitLayout ==
  \E list \in SeqsUpTo({ "KAAA", "KBBB", "NULL" }, MaxAirports) :
  \E leds \in 1..(MaxAirports + 8) :
  \E legend \in BOOLEAN : \E offset \in {0, 1} :
  \E wind \in BOOLEAN : \E ltg \in BOOLEAN : \E hwt \in {-1, 3} :
    /\ config = [DefaultConfig EXCEPT
                   !.LED_COUNT = leds,
                   !.SHOW_LEGEND = legend,
                   !.OFFSET_LEGEND_BY = offset,
                   !.ACTIVATE_WINDCONDITION_ANIMATION = wind,
                   !.ACTIVATE_LIGHTNING_ANIMATION = ltg,
                   !.HIGH_WINDS_THRESHOLD = hwt]
    /\ airports = list
    /\ displayairports = NoSubset
    /\ response = DefaultResponse
    /\ noDisplayLibraries = FALSE

\* the records of the fallback payloads: with or without a category, with or
\* without a position
FallbackStations ==
  { Station(id, cat, pos[1], pos[2], Num(0), Null, <<>>) :
      id \in { "KAAA", "KBBB" }, cat \in { "", "VFR", "IFR" },
      pos \in { <<0, 0>> } \cup ({1, 2} \X Longitudes) }

\* every payload of up to MaxRecords such records, the fallback enabled
InitFallback ==
  \E payload \in SeqsUpTo(FallbackStations, MaxRecords) :
    /\ config = [DefaultConfig EXCEPT
                   !.ACTIVATE_WINDCONDITION_ANIMATION = FALSE,
                   !.ACTIVATE_LIGHTNING_ANIMATION = FALSE]
    /\ airports = <<"KAAA", "KBBB">>
    /\ displayairports = NoSubset
    /\ response = payload
    /\ noDisplayLibraries = FALSE

\* the shorter payloads, the fallback disabled
InitFallbackOff ==
  \E payload \in SeqsUpTo(FallbackStations, MaxRecords - 1) :
    /\ config = [DefaultConfig EXCEPT
                   !.REPLACE_CAT_WITH_CLOSEST = FALSE,
                   !.ACTIVATE_WINDCONDITION_ANIMATION = FALSE,
                   !.ACTIVATE_LIGHTNING_ANIMATION = FALSE]
    /\ airports = <<"KAAA", "KBBB">>
    /\ displayairports = NoSubset
    /\ response = payload
    /\ noDisplayLibraries = FALSE

\* the rotating display over every subset file and every set of returned stations
InitDisplay ==
  \E subset \in { NoSubset, Subset(<<"">>) }
                 \cup { Subset(l) : l \in SeqsUpTo({ "KAAA", "KBBB" }, MaxAirports) } :
  \E ids \in SeqsUpTo({ "", "KAAA", "KBBB" }, MaxAirports) :
  \E speed \in {1, 2} : \E total \in 1..MaxTime : \E rotation \in {0, 1} :
    /\ config = [DefaultConfig EXCEPT
                   !.ACTIVATE_EXTERNAL_METAR_DISPLAY = TRUE,
                   !.BLINK_SPEED = speed,
                   !.BLINK_TOTALTIME_SECONDS = total,
                   !.DISPLAY_ROTATION_SPEED = rotation]
    /\ airports = <<"KAAA", "NULL", "KBBB">>
    /\ displayairports = subset
    /\ response = [k \in 1..Len(ids) |->
                     Station(ids[k], "MVFR", 1, 10, Num(1), Num(1), <<>>)]
    /\ noDisplayLibraries = FALSE

\* the tick count under every combination of the three features
InitLoop ==
  \E wind \in BOOLEAN : \E ltg \in BOOLEAN : \E ext \in BOOLEAN :
  \E nolib \in BOOLEAN : \E speed \in {1, 2} : \E total \in 0..MaxTime :
    /\ config = [DefaultConfig EXCEPT
                   !.ACTIVATE_WINDCONDITION_ANIMATION = wind,
                   !.ACTIVATE_LIGHTNING_ANIMATION = ltg,
                   !.ACTIVATE_EXTERNAL_METAR_DISPLAY = ext,
                   !.BLINK_SPEED = speed,
                   !.BLINK_TOTALTIME_SECONDS = total]
    /\ airports = <<"KAAA", "KBBB">>
    /\ displayairports = NoSubset
    /\ response = DefaultResponse
    /\ noDisplayLibraries = nolib

\* every raw text of up to MaxTokens tokens
InitLightning ==
  \E tokens \in TokenLists :
    /\ config = DefaultConfig
    /\ airports = <<"KAAA">>
    /\ displayairports = NoSubset
    /\ response = << Station("KAAA", "LIFR", 1, 10, Num(0), Null, Join(tokens)) >>
    /\ noDisplayLibraries = FALSE

Init ==
  /\ InitProgram
  /\ \/ InitColours
     \/ InitLayout
     \/ InitFallback
     \/ InitFallbackOff
     \/ InitDisplay
     \/ InitLoop
     \/ InitLightning

Spec == Init /\ [][Next]_vars

\* ------------------------------------------------------------------ claims
FourCategories == { "VFR", "MVFR", "IFR", "LIFR" }

\* a tick is about to run / has run
InTick == pc = "loop" /\ looplimit > 0
TickHappened == pc = "crashed" \/ (pc \in { "loop", "done" } /\ looplimit < TickCount)

\* the three flags and the colours as section 4.4 of the specification defines them
SpecWindy(c, phase) ==
  /\ ACTIVATE_WINDCONDITION_ANIMATION
  /\ phase
  /\ (c.windSpeed >= WIND_BLINK_THRESHOLD \/ c.windGust)

SpecHighWinds(c, phase) ==
  /\ SpecWindy(c, phase)
  /\ HIGH_WINDS_THRESHOLD # -1
  /\ (c.windSpeed >= HIGH_WINDS_THRESHOLD \/ c.windGustSpeed >= HIGH_WINDS_THRESHOLD)

SpecLightningActive(c, phase) ==
  ACTIVATE_LIGHTNING_ANIMATION /\ ~phase /\ c.lightning

BaseColor(cat) ==
  CASE cat = "VFR" -> COLOR_VFR
    [] cat = "MVFR" -> COLOR_MVFR
    [] cat = "IFR" -> COLOR_IFR
    [] cat = "LIFR" -> COLOR_LIFR
    [] OTHER -> COLOR_CLEAR

FadeColor(cat) ==
  CASE cat = "VFR" -> COLOR_VFR_FADE
    [] cat = "MVFR" -> COLOR_MVFR_FADE
    [] cat = "IFR" -> COLOR_IFR_FADE
    [] cat = "LIFR" -> COLOR_LIFR_FADE
    [] OTHER -> COLOR_CLEAR

PrecedenceColor(c, phase) ==
  IF SpecLightningActive(c, phase) THEN COLOR_LIGHTNING
  ELSE IF SpecHighWinds(c, phase) THEN COLOR_HIGH_WINDS
  ELSE IF SpecWindy(c, phase)
       THEN (IF FADE_INSTEAD_OF_BLINK THEN FadeColor(c.flightCategory)
             ELSE COLOR_CLEAR)
  ELSE BaseColor(c.flightCategory)

\* C1 as stated: in every tick, every airport that has a Condition is written
\* the colour the precedence lightning > high winds > windy > base gives,
\* whatever its flight category is.
C1_PrecedenceAllCategories ==
  [][InTick =>
       \A k \in 1..Len(writes') :
         (~writes'[k].legend /\ writes'[k].airport \in DOMAIN conditionDict)
         => writes'[k].color =
              PrecedenceColor(conditionDict[writes'[k].airport], windCycle)]_vars

\* C1 as amended: the precedence lightning > high winds > windy (fade colour
\* in fade mode, clear otherwise) > base colour holds in every tick for every
\* airport whose Condition's category is VFR, MVFR, IFR or LIFR; an airport
\* whose Condition has any other category is written the clear colour.
C1_PrecedenceKnownCategories ==
  [][InTick =>
       \A k \in 1..Len(writes') :
         (~writes'[k].legend /\ writes'[k].airport \in DOMAIN conditionDict)
         => LET c == conditionDict[writes'[k].airport]
            IN writes'[k].color =
                 IF c.flightCategory \in FourCategories
                 THEN PrecedenceColor(c, windCycle)
                 ELSE COLOR_CLEAR]_vars

\* a VFR station that is windy but not very windy has been written the VFR
\* fade colour (the end-to-end scenario of the specification)
C1_Witness ==
  \E k \in 1..Len(writes) :
    /\ ~writes[k].legend
    /\ writes[k].airport \in DOMAIN conditionDict
    /\ conditionDict[writes[k].airport].flightCategory = "VFR"
    /\ writes[k].windy
    /\ ~writes[k].highWinds
    /\ writes[k].color = COLOR_VFR_FADE

FadeColors ==
  { COLOR_VFR_FADE, COLOR_MVFR_FADE, COLOR_IFR_FADE, COLOR_LIFR_FADE }

Featured ==
  ACTIVATE_WINDCONDITION_ANIMATION \/ ACTIVATE_LIGHTNING_ANIMATION
  \/ ACTIVATE_EXTERNAL_METAR_DISPLAY

\* n is total-blink-seconds / blink-speed rounded to the nearest whole number
IsRounded(n) ==
  /\ 2 * Abs(n * BLINK_SPEED - BLINK_TOTALTIME_SECONDS) <= BLINK_SPEED
  /\ (2 * Abs(n * BLINK_SPEED - BLINK_TOTALTIME_SECONDS) = BLINK_SPEED => n % 2 = 0)

ClaimedTicks ==
  IF Featured THEN CHOOSE n \in 0..(BLINK_TOTALTIME_SECONDS + 1) : IsRounded(n)
  ELSE 1

\* C3: the loop runs exactly N ticks, N = round(total / speed) with a feature
\* enabled and 1 with none: the count starts at N, every tick takes one from it
\* and pushes the strip once, and the run ends with the count at zero after N
\* pushes.
C3_ExactlyNTicks ==
  /\ (pc \in { "loop", "done", "crashed" } => showCount + looplimit = ClaimedTicks)
  /\ (pc \in { "done", "crashed" } => looplimit = 0 /\ showCount = ClaimedTicks)


\* C4: in every tick, a position of the airport list that holds NULL gets no
\* write to its LED, and every other position p gets exactly one write, to LED
\* index p (counted from 0), for the airport at p, and the buffer holds its colour.
C4_PlaceholderKeepsPositions ==
  TickHappened =>
    \A p \in 1..Len(airports) :
      LET at == { k \in 1..Len(writes) : writes[k].led = p - 1 }
      IN IF airports[p] = "NULL" THEN at = {}
         ELSE /\ Cardinality(at) = 1
              /\ \A k \in at :
                   /\ ~writes[k].legend
                   /\ writes[k].airport = airports[p]
                   /\ pixels[p] = writes[k].color

\* a tick has written the airport that follows a NULL entry at its own position
C4_Witness ==
  /\ TickHappened
  /\ \E p \in 1..Len(airports) : \E q \in 1..Len(airports) :
       /\ p < q
       /\ airports[p] = "NULL"
       /\ airports[q] # "NULL"
       /\ \E k \in 1..Len(writes) :
            writes[k].led = q - 1 /\ writes[k].airport = airports[q]

Resolved == pc \in { "display", "loop", "done", "crashed" }

\* the records that reported a category and a position, by place in the response
References ==
  { j \in 1..Len(station_meta) :
      /\ station_meta[j].fltCat # ""
      /\ station_meta[j].lat # 0
      /\ station_meta[j].lon # 0 }

Distance(s, j) ==
  haversine(s.lat, s.lon, station_meta[j].lat, station_meta[j].lon)

\* the first reference in response order among those at minimum distance from s
NearestReference(s) ==
  CHOOSE j \in References :
    \A i \in References :
      Distance(s, j) < Distance(s, i) \/ (Distance(s, j) = Distance(s, i) /\ j <= i)

Unfilled(s) == s.fltCat = "" /\ s.lat # 0 /\ s.lon # 0

\* every record of the station of s that asks for a fill reports the position of s
OnePosition(s) ==
  \A k \in 1..Len(station_meta) :
    (station_meta[k].icaoId = s.icaoId /\ Unfilled(station_meta[k]))
    => (station_meta[k].lat = s.lat /\ station_meta[k].lon = s.lon)

\* C5: with the fallback enabled and at least one reference (a station that
\* reported a category and a non-zero position), a station that reported no
\* category and a non-zero position ends with the category reported by the
\* nearest reference, the first in response order among the nearest; the
\* category is always one that its station reported itself. (A station is an
\* identifier with one reported position.)
C5_NearestReportedCategory ==
  (Resolved /\ REPLACE_CAT_WITH_CLOSEST /\ References # {}) =>
    \A k \in 1..Len(station_meta) :
      LET s == station_meta[k]
      IN (Unfilled(s) /\ OnePosition(s)) =>
           conditionDict[s.icaoId].flightCategory
             = station_meta[NearestReference(s)].fltCat

\* a station was filled where two references of different categories are
\* equally near, and it got the category of the first
C5_Witness ==
  /\ Resolved /\ REPLACE_CAT_WITH_CLOSEST
  /\ \E k \in 1..Len(station_meta) : \E i \in References : \E j \in References :
       LET s == station_meta[k]
       IN /\ Unfilled(s) /\ OnePosition(s)
          /\ i < j
          /\ NearestReference(s) = i
          /\ Distance(s, i) = Distance(s, j)
          /\ station_meta[i].fltCat # station_meta[j].fltCat
          /\ conditionDict[s.icaoId].flightCategory = station_meta[i].fltCat

\* C6: the resolver leaves every Condition that holds a category as it is,
\* changes no field other than flightCategory of any Condition, and changes
\* nothing at all when the fallback is disabled or there is no reference.
C6_OnlyFillsEmpty ==
  [][(pc = "parse" /\ parsed = Len(output)) =>
       /\ DOMAIN conditionDict' = DOMAIN conditionDict
       /\ \A id \in DOMAIN conditionDict :
            /\ conditionDict[id].flightCategory # ""
                 => conditionDict'[id] = conditionDict[id]
            /\ [conditionDict'[id] EXCEPT !.flightCategory = ""]
                 = [conditionDict[id] EXCEPT !.flightCategory = ""]
       /\ (~REPLACE_CAT_WITH_CLOSEST \/ References = {})
            => conditionDict' = conditionDict]_vars

\* C7: a run that ends at the airport-count check has not constructed or
\* written the strip, has issued no fetch and has not started the display.
C7_ExitTouchesNothing ==
  pc = "exited" =>
    /\ pixels = <<>>
    /\ writes = <<>>
    /\ showCount = 0
    /\ httpRequests = 0
    /\ disp = "None"

\* the tokens of a text: its maximal runs of word characters
TokensOf(text) ==
  { SubSeq(text, ij[1], ij[2]) :
      ij \in { x \in (1..Len(text)) \X (1..Len(text)) :
                 /\ x[1] <= x[2]
                 /\ \A k \in x[1]..x[2] : text[k] \notin NonWordChars
                 /\ (x[1] = 1 \/ text[x[1] - 1] \in NonWordChars)
                 /\ (x[2] = Len(text) \/ text[x[2] + 1] \in NonWordChars) } }

\* the thunderstorm and lightning codes (an intensity sign is not part of a token)
RecognisedTokens ==
  { VCTS }
  \cup { TS \o x : x \in TSSuffixes }
  \cup { LTG \o t : t \in LTGTypes }

\* the identifier of the k-th record, and whether it is the last parsed record of it
IdOf(k) == safe_str(output[k].icaoId, "")
LastOf(k) == \A m \in (k + 1)..parsed : IdOf(m) # IdOf(k)

\* C8: the lightning flag of a parsed station is true exactly when its raw text,
\* in upper case and read as tokens, holds a thunderstorm or lightning code and
\* does not hold the token TSNO; with TSNO anywhere in the text the flag is false.
C8_LightningFlag ==
  \A k \in 1..parsed :
    (IdOf(k) # "" /\ LastOf(k)) =>
      LET tokens == TokensOf(upper(output[k].rawOb))
      IN conditionDict[IdOf(k)].lightning
           = (tokens \cap RecognisedTokens # {} /\ TSNO \notin tokens)

\* a parsed text holds a thunderstorm code after the token TSNO and the flag is false
C8_Witness ==
  \E k \in 1..parsed :
    /\ IdOf(k) # "" /\ LastOf(k)
    /\ output[k].rawOb = Join(<<TSNO, TS>>)
    /\ conditionDict[IdOf(k)].lightning = FALSE

\* C9: in every tick an airport whose Condition's category is none of VFR,
\* MVFR, IFR and LIFR is written the clear colour, whatever its wind, gust and
\* lightning values and the phase are.
C9_OtherCategoryIsClear ==
  \A k \in 1..Len(writes) :
    (/\ ~writes[k].legend
     /\ writes[k].airport \in DOMAIN conditionDict
     /\ conditionDict[writes[k].airport].flightCategory \notin FourCategories)
    => writes[k].color = COLOR_CLEAR

\* a station without a category whose lightning is active in the tick has been
\* written the clear colour
C9_Witness ==
  \E k \in 1..Len(writes) :
    /\ ~writes[k].legend
    /\ writes[k].airport \in DOMAIN conditionDict
    /\ conditionDict[writes[k].airport].flightCategory = ""
    /\ writes[k].lightningConditions
    /\ writes[k].color = COLOR_CLEAR

\* C10: while the display is active, at every tick the rotating index is an
\* index into station_list, the list the display renders from.
C10_IndexInStationList ==
  (InTick /\ disp # "None") =>
    (displayAirportCounter >= 0 /\ displayAirportCounter < Len(station_list))

\* a Condition whose gust speed is exactly the blink threshold, whose wind
\* speed is below it, the override for gusts being disabled
GustAtThreshold(c) ==
  /\ ~ALWAYS_BLINK_FOR_GUSTS
  /\ c.windGustSpeed = WIND_BLINK_THRESHOLD
  /\ c.windSpeed < WIND_BLINK_THRESHOLD

\* C11: a station whose gust speed equals the wind-blink threshold, with its
\* wind speed below the threshold and the override for gusts disabled, has its
\* gust flag set, and with the wind animation enabled it is windy in every
\* tick of the ON phase.
C11_GustAtThresholdBlinks ==
  [][\A id \in DOMAIN conditionDict' :
       GustAtThreshold(conditionDict'[id]) =>
         /\ conditionDict'[id].windGust = TRUE
         /\ (InTick /\ windCycle /\ ACTIVATE_WINDCONDITION_ANIMATION) =>
              \A k \in 1..Len(writes') :
                (~writes'[k].legend /\ writes'[k].airport = id) => writes'[k].windy]_vars

\* C12: a record with an empty identifier reaches no output of the classifier:
\* every identifier of station_list, the list the rotating display renders
\* from, is non-empty and a key of conditionDict, and no render of the display
\* is handed a missing Condition.
C12_EmptyIdentifierDropped ==
  /\ \A k \in 1..Len(station_list) :
       /\ station_list[k] # ""
       /\ station_list[k] \in DOMAIN conditionDict
  /\ error # "TypeError"

\* the writes the next tick makes unless one raises: the airports', then the legend's
PlannedWrites ==
  LET loop == AirportLoop(1, 0, windCycle)
  IN loop.writes \o Legend(loop.i, windCycle)

\* C13: after the airport-count check has passed, every LED index a tick
\* writes, an airport's or the trailing legend's, lies in 0..LED_COUNT-1.
C13_WritesInsideStrip ==
  InTick =>
    /\ Len(airports) <= LED_COUNT
    /\ \A k \in 1..Len(PlannedWrites) : PlannedWrites[k].led \in 0..(LED_COUNT - 1)

====
